---- MODULE Spec2Model ----
(***************************************************************************)
(* PrintLe print server (printle-server/server.js): the page-range         *)
(* resolver getPageIndices and the POST /api/print handler that filters a  *)
(* PDF, builds the IPP job attributes, calls printer.execute and answers   *)
(* the client.                                                             *)
(*                                                                         *)
(* A JavaScript string is a sequence of one-character strings.  The        *)
(* JavaScript value undefined of a form field is the one-element sequence  *)
(* <<"undefined">>, which is no string of characters.                      *)
(***************************************************************************)
EXTENDS Integers, Sequences, FiniteSets, TLC

(***************************************************************************)
(* Bounds of the model.                                                    *)
(***************************************************************************)
\* longest range expression given to the resolver on its own
MaxLen == 5
\* longest range expression carried by a request to the handler
MaxReqLen == 3
\* largest page count of a document
MaxPages == 3
\* number of things the user does in the web app in one run
MaxUserEvents == 5

\* most pages of a document given to the splitter on its own
MaxDocPages == 40
\* most splits applied in a row to one document
MaxPasses == 2
\* requests the server works on at the same time
MaxJobs == 2

(***************************************************************************)
(* Strings.                                                                *)
(***************************************************************************)
Digits == {"1", "2", "3"}

\* the characters a range expression is written with: digits, the two
\* separators, white space and one character that is none of these
Alphabet == Digits \cup {",", "-", " ", "x"}

StringsUpTo(k) == UNION {[1..m -> Alphabet] : m \in 0..k}

undefined == <<"undefined">>

\* JavaScript truthiness of a value that is a string or undefined
Truthy(s) == s # undefined /\ s # <<>>

Range(s) == {s[k] : k \in 1..Len(s)}

\* String.prototype.includes
Includes(s, c) == c \in Range(s)

\* String.prototype.trim
RECURSIVE TrimStart(_)
TrimStart(s) == IF s # <<>> /\ Head(s) = " " THEN TrimStart(Tail(s)) ELSE s

RECURSIVE TrimEnd(_)
TrimEnd(s) ==
  IF s # <<>> /\ s[Len(s)] = " " THEN TrimEnd(SubSeq(s, 1, Len(s) - 1)) ELSE s

Trim(s) == TrimEnd(TrimStart(s))

\* String.prototype.split with a one-character separator: the pieces
\* between the separators, empty pieces included, at least one piece
RECURSIVE SplitFrom(_, _, _)
SplitFrom(s, sep, cur) ==
  IF s = <<>> THEN <<cur>>
  ELSE IF Head(s) = sep THEN <<cur>> \o SplitFrom(Tail(s), sep, <<>>)
  ELSE SplitFrom(Tail(s), sep, Append(cur, Head(s)))

Split(s, sep) == SplitFrom(s, sep, <<>>)

\* Number(s) is NaN when s is no numeric literal; no literal of the
\* alphabet is negative, so a negative value stands for NaN
NaN == 0 - 1

DigitVal(c) == CASE c = "1" -> 1 [] c = "2" -> 2 [] c = "3" -> 3

RECURSIVE Decimal(_, _)
Decimal(s, acc) ==
  IF s = <<>> THEN acc ELSE Decimal(Tail(s), 10 * acc + DigitVal(Head(s)))

\* Number(string): white space around the literal is ignored, the empty
\* literal is 0, a run of digits is its decimal value, the rest is NaN
Number(s) ==
  LET t == Trim(s) IN
    IF t = <<>> THEN 0
    ELSE IF Range(t) \subseteq Digits THEN Decimal(t, 0)
    ELSE NaN

(***************************************************************************)
(* getPageIndices.  The Set `indices` keeps its elements in insertion      *)
(* order, which Array.from reads back: it is a sequence without            *)
(* duplicates.                                                             *)
(***************************************************************************)
Null == [isNull |-> TRUE, arr |-> <<>>]

Array(a) == [isNull |-> FALSE, arr |-> a]

\* Set.prototype.add
SetAdd(indices, v) == IF v \in Range(indices) THEN indices ELSE Append(indices, v)

RECURSIVE AscendingSeq(_)
AscendingSeq(S) ==
  IF S = {} THEN <<>>
  ELSE LET m == CHOOSE x \in S : \A y \in S : x <= y
       IN <<m>> \o AscendingSeq(S \ {m})

\* the loop with the condition i < end, which leaves the last page out
AddRangeExclusive(indices, start, end, totalPages) ==
  IF start = NaN \/ end = NaN THEN indices
  ELSE indices \o AscendingSeq({i - 1 : i \in {j \in start..(end - 1) : j > 0 /\ j <= totalPages}}
                                 \ Range(indices))

\* for (let i = start; i <= end; i++) if (i > 0 && i <= totalPages)
\* indices.add(i - 1): the loop adds, in ascending order, the page indices of
\* start..end that are in the document and not yet in the Set; a comparison
\* with NaN is false, so a NaN bound leaves the loop body unexecuted
AddRange(indices, start, end, totalPages) ==
  IF start = NaN \/ end = NaN THEN indices
  ELSE indices \o AscendingSeq({i - 1 : i \in {j \in start..end : j > 0 /\ j <= totalPages}}
                                 \ Range(indices))

\* if (page > 0 && page <= totalPages) indices.add(page - 1)
AddPage(indices, page, totalPages) ==
  IF page # NaN /\ page > 0 /\ page <= totalPages
  THEN SetAdd(indices, page - 1) ELSE indices

\* the body of parts.forEach
AddPart(indices, rawPart, totalPages) ==
  LET part == Trim(rawPart) IN
    IF Includes(part, "-")
    THEN LET nums == Split(part, "-")
         IN AddRange(indices, Number(nums[1]), Number(nums[2]), totalPages)
    ELSE AddPage(indices, Number(part), totalPages)

RECURSIVE ForEachPart(_, _, _)
ForEachPart(parts, indices, totalPages) ==
  IF parts = <<>> THEN indices
  ELSE ForEachPart(Tail(parts), AddPart(indices, Head(parts), totalPages), totalPages)

\* Array.from(indices) left as the Set yields it, in insertion order
InsertionOrder(a) == a

\* Array.prototype.sort((a, b) => a - b)
SortNumeric(a) == SortSeq(a, LAMBDA x, y : x < y)

getPageIndices(rangeStr, totalPages) ==
  IF ~Truthy(rangeStr) THEN Null
  ELSE Array(SortNumeric(ForEachPart(Split(rangeStr, ","), <<>>, totalPages)))

(***************************************************************************)
(* The document model (pdf-lib).  A document is the sequence of the        *)
(* original page numbers (from 1) of the pages it holds.                   *)
(***************************************************************************)
\* the document PDFDocument.load reads from an upload of pageCount pages
LoadedDoc(pageCount) == [k \in 1..pageCount |-> k]

\* newPdf.copyPages(pdfDoc, indices) and addPage of every copy, in order
CopyPages(doc, indices) == [k \in 1..Len(indices) |-> doc[indices[k] + 1]]

\* the parity taken on the page number from 1 instead of the index from 0
KeepsIndexOneBased(duplexType, i) ==
  \/ duplexType = "odd" /\ i % 2 = 1
  \/ duplexType = "even" /\ ~(i % 2 = 1)

\* the condition of the duplex loop on the zero-based index i
KeepsIndex(duplexType, i) ==
  \/ duplexType = "odd" /\ i % 2 = 0
  \/ duplexType = "even" /\ ~(i % 2 = 0)

\* for (let i = 0; i < pageCount; i++): the pages the condition keeps
ParityPages(doc, duplexType) ==
  CopyPages(doc, AscendingSeq({i \in 0..(Len(doc) - 1) : KeepsIndex(duplexType, i)}))

(***************************************************************************)
(* The request and the values of the handler.                              *)
(***************************************************************************)
PdfMime == "application/pdf"

NoFile == [present |-> FALSE, mimetype |-> "", pageCount |-> 0]

\* req.file: nothing, a PDF of 1..MaxPages pages, or a file that is no PDF
Files ==
  {NoFile}
    \cup {[present |-> TRUE, mimetype |-> PdfMime, pageCount |-> k] : k \in 1..MaxPages}
    \cup {[present |-> TRUE, mimetype |-> "text/plain", pageCount |-> 0]}

PrinterAddress == "ipp://192.168.1.50:631/printers/main"

\* req.file and req.body; a field the handler only compares is a string,
\* "undefined" when the form does not carry it
Requests ==
  [file : Files,
   printerUrl : {"", PrinterAddress},
   duplex : {"undefined", "auto", "odd", "even"},
   pages : StringsUpTo(MaxReqLen) \cup {undefined},
   grayscale : {"undefined", "true", "false"}]

\* every file taken for a PDF: the test of the mimetype left out
AnyFileIsPdf(file) == TRUE

\* file.mimetype === 'application/pdf'
IsPdfFile(file) == file.mimetype = PdfMime

\* const grayscale = req.body.grayscale === 'true'
GrayscaleFlag(r) == r.grayscale = "true"

\* !file alone: the printer address is not looked at
MissingFileOnly(r) == ~r.file.present

\* !file || !printerUrl
MissingInput(r) == ~r.file.present \/ r.printerUrl = ""

NoBuffer == [bytes |-> "none", pages |-> <<>>]

\* fs.readFileSync(file.path): the bytes of the upload
UploadedBuffer(file) == [bytes |-> "uploaded", pages |-> LoadedDoc(file.pageCount)]

\* the page pdf-lib's save() adds to a document that holds none (its option
\* addDefaultPage, true unless the caller says otherwise): a blank page, which
\* is no page of the upload
DefaultPage == 0

\* save() writing the document as it is, also when it holds no page
SavedBufferAsIs(doc) == [bytes |-> "saved", pages |-> doc]

\* Buffer.from(await pdfDoc.save()): the bytes of a document written anew;
\* save() is called without options and adds the default page to a document
\* of no pages
SavedBuffer(doc) ==
  [bytes |-> "saved", pages |-> IF doc = <<>> THEN <<DefaultPage>> ELSE doc]

DocFormat(file) ==
  IF file.mimetype = PdfMime THEN PdfMime ELSE "application/octet-stream"

\* the sides attribute set for every duplex directive, manual ones included
JobAttributesSidesAlways(grayscale, duplexType) ==
  (IF grayscale THEN {<<"print-color-mode", "monochrome">>} ELSE {})
    \cup (IF duplexType # "undefined" THEN {<<"sides", "two-sided-long-edge">>} ELSE {})

\* data['job-attributes-tag'] as the set of its <<name, value>> entries
JobAttributes(grayscale, duplexType) ==
  (IF grayscale THEN {<<"print-color-mode", "monochrome">>} ELSE {})
    \cup (IF duplexType = "auto" THEN {<<"sides", "two-sided-long-edge">>} ELSE {})

\* the argument `data` of printer.execute("Print-Job", data, callback)
PrintJobData(r, buffer) ==
  [printerUrl |-> r.printerUrl,
   documentFormat |-> DocFormat(r.file),
   jobAttributes |-> JobAttributes(GrayscaleFlag(r), r.duplex),
   data |-> buffer]

NoResponse == [status |-> 0]

MissingInputResponse == [status |-> 400, error |-> "Missing file or printerUrl"]

InternalErrorResponse == [status |-> 500, error |-> "Internal Server Error"]

ConnectionFailedResponse(err) ==
  [status |-> 500, error |-> "Printer Connection Failed", details |-> err]

SuccessResponse(jobId) == [status |-> 200, success |-> TRUE, jobId |-> jobId]

\* the response without the status the printer reported
PrinterErrorWithoutStatus(statusCode) ==
  [status |-> 500, error |-> "Printer reported error"]

PrinterErrorResponse(statusCode) ==
  [status |-> 500, error |-> "Printer reported error", ippStatus |-> statusCode]

SuccessStatuses ==
  {"successful-ok", "successful-ok-ignored-or-substituted-attributes"}

\* the status codes a printer answers Print-Job with: the three successful
\* ones of IPP and two of the error ones
StatusCodes ==
  SuccessStatuses
    \cup {"successful-ok-conflicting-attributes",
          "client-error-document-format-not-supported", "server-error-busy"}

\* what the transport hands to the callback: an error, or a response with a
\* status code and, when the printer sends one, a job-attributes-tag group
\* holding the job-id
Replies ==
  {[err |-> "ECONNREFUSED", statusCode |-> "", hasJobTag |-> FALSE, jobId |-> 0]}
    \cup [err : {"null"}, statusCode : StatusCodes, hasJobTag : BOOLEAN, jobId : {17}]

\* no reply of the transport yet
NoReply == [err |-> "none", statusCode |-> "", hasJobTag |-> FALSE, jobId |-> 0]

\* the callback reads response['job-attributes-tag']['job-id'] of a response
\* it takes for successful: without the group the read throws
CallbackThrows(reply) ==
  /\ reply.err = "null"
  /\ reply.statusCode \in SuccessStatuses
  /\ ~reply.hasJobTag

\* the response the callback of printer.execute sends
CallbackResponse(reply) ==
  IF reply.err # "null" THEN ConnectionFailedResponse(reply.err)
  ELSE IF reply.statusCode \in SuccessStatuses THEN SuccessResponse(reply.jobId)
  ELSE PrinterErrorResponse(reply.statusCode)

(***************************************************************************)
(* State.                                                                  *)
(***************************************************************************)
VARIABLES
  expr,        \* resolver on its own: the range expression
  n,           \* resolver on its own: the page count
  rpc,         \* resolver on its own: "call" or "returned"
  result,      \* resolver on its own: the value getPageIndices returned
  req,         \* handler: the request, req.file and req.body
  pc,          \* handler: where the handler of the request stands
  staged,      \* handler: the upload multer staged at file.path is on disk
  fileBuffer,  \* handler: let fileBuffer
  pdfDoc,      \* handler: let pdfDoc
  modified,    \* handler: let modified
  calls,       \* handler: the data of every call of printer.execute, in order
  res,         \* handler: the response sent to the client, NoResponse before
  fault,       \* handler: the step that threw into the catch block, or "none"
  ippReply,    \* handler: what the transport handed to the callback, NoReply before
  abandonedAt, \* handler: where the handler stood when the caller gave up, or "no"
  file,           \* web app: useState file, NoFile for null
  isUploading,    \* web app: useState isUploading
  uploadSuccess,  \* web app: useState uploadSuccess
  uploadStage,    \* web app: useState uploadStage, "null", "odd" or "even"
  showFlipPrompt, \* web app: useState showFlipPrompt
  errorMessage,   \* web app: useState errorMessage, the parts of the text
  duplexMode,     \* web app: useState duplexMode
  grayscale,      \* web app: useState grayscale
  pageRange,      \* web app: useState pageRange
  inflight,       \* web app: the calls of handlePrint that await their fetch
  resetTimers,    \* web app: the pending setTimeout(..., 3000) callbacks
  serving,        \* the id of the request the handler works on, 0 for none
  issued,         \* the number of requests the web app has sent
  triggers,       \* the number of times the user pressed Print Now or Continue
  events,         \* the number of things the user has done
  promptBy,       \* the request and the answer that raised the flip prompt
  original,    \* splitter on its own: the document given to the first split
  parity,      \* splitter on its own: the parity asked for, "odd" or "even"
  doc,         \* splitter on its own: the document after the splits so far
  passes,      \* splitter on its own: the number of splits applied
  running,     \* event loop: the request whose handler runs now, 0 with one request
  parked       \* event loop: the handlers of the other requests, at their await

resolverVars == <<expr, n, rpc, result>>

handlerVars ==
  <<req, pc, staged, fileBuffer, pdfDoc, modified, calls, res, fault, ippReply, abandonedAt>>

appVars ==
  <<file, isUploading, uploadSuccess, uploadStage, showFlipPrompt, errorMessage,
    duplexMode, grayscale, pageRange, inflight, resetTimers>>

clientVars ==
  <<file, isUploading, uploadSuccess, uploadStage, showFlipPrompt, errorMessage,
    duplexMode, grayscale, pageRange, inflight, resetTimers,
    serving, issued, triggers, events, promptBy>>

splitterVars == <<original, parity, doc, passes>>

loopVars == <<running, parked>>

vars ==
  <<original, parity, doc, passes, running, parked,
    expr, n, rpc, result,
    req, pc, staged, fileBuffer, pdfDoc, modified, calls, res, fault, ippReply, abandonedAt,
    file, isUploading, uploadSuccess, uploadStage, showFlipPrompt, errorMessage,
    duplexMode, grayscale, pageRange, inflight, resetTimers,
    serving, issued, triggers, events, promptBy>>

NoMessage == <<>>

NoPrompt == [raised |-> FALSE]

\* the web app as its useState calls construct it, nothing sent yet
ClientIdle ==
  /\ file = NoFile
  /\ isUploading = FALSE
  /\ uploadSuccess = FALSE
  /\ uploadStage = "null"
  /\ showFlipPrompt = FALSE
  /\ errorMessage = NoMessage
  /\ duplexMode = "none"
  /\ grayscale = FALSE
  /\ pageRange = <<>>
  /\ inflight = {}
  /\ resetTimers = 0
  /\ serving = 0
  /\ issued = 0
  /\ triggers = 0
  /\ events = 0
  /\ promptBy = NoPrompt

\* no document given to the splitter on its own
SplitterIdle ==
  /\ original = <<>>
  /\ parity = "odd"
  /\ doc = <<>>
  /\ passes = 0

\* one request only: nothing else for the event loop to run
LoopIdle ==
  /\ running = 0
  /\ parked = <<>>

(***************************************************************************)
(* The resolver on its own: one call on every expression and page count.   *)
(***************************************************************************)
HandlerIdle ==
  /\ req = [file |-> NoFile, printerUrl |-> "", duplex |-> "undefined",
            pages |-> undefined, grayscale |-> "undefined"]
  /\ pc = "done"
  /\ staged = FALSE
  /\ fileBuffer = NoBuffer
  /\ pdfDoc = <<>>
  /\ modified = FALSE
  /\ calls = <<>>
  /\ res = NoResponse
  /\ fault = "none"
  /\ ippReply = NoReply
  /\ abandonedAt = "no"

InitResolver ==
  /\ expr \in StringsUpTo(MaxLen)
  /\ n \in 0..MaxPages
  /\ rpc = "call"
  /\ result = Null
  /\ HandlerIdle
  /\ ClientIdle
  /\ SplitterIdle
  /\ LoopIdle

Resolve ==
  /\ rpc = "call"
  /\ result' = getPageIndices(expr, n)
  /\ rpc' = "returned"
  /\ UNCHANGED <<expr, n>>
  /\ UNCHANGED handlerVars
  /\ UNCHANGED clientVars
  /\ UNCHANGED splitterVars
  /\ UNCHANGED loopVars

NextResolver == Resolve

SpecResolver == InitResolver /\ [][NextResolver]_vars

(***************************************************************************)
(* The splitter on its own: the duplex loop of the handler applied to a    *)
(* document, and again to what it made.                                    *)
(***************************************************************************)
InitSplitter ==
  /\ original \in {LoadedDoc(k) : k \in 0..MaxDocPages}
  /\ parity \in {"odd", "even"}
  /\ doc = original
  /\ passes = 0
  /\ expr = <<>>
  /\ n = 0
  /\ rpc = "returned"
  /\ result = Null
  /\ HandlerIdle
  /\ ClientIdle
  /\ LoopIdle

\* one run of the duplex loop over the document at hand
SplitPass ==
  /\ passes < MaxPasses
  /\ doc' = ParityPages(doc, parity)
  /\ passes' = passes + 1
  /\ UNCHANGED <<original, parity>>
  /\ UNCHANGED resolverVars
  /\ UNCHANGED handlerVars
  /\ UNCHANGED clientVars
  /\ UNCHANGED loopVars

NextSplitter == SplitPass

SpecSplitter == InitSplitter /\ [][NextSplitter]_vars

(***************************************************************************)
(* POST /api/print: one request from its arrival to its response.  The     *)
(* handler is an async function: every action is the code between two      *)
(* awaits, and printer.execute answers through its callback.               *)
(***************************************************************************)
\* multer has staged the upload, if the form carries one, before the
\* handler runs
Init ==
  /\ req \in Requests
  /\ pc = "received"
  /\ staged = req.file.present
  /\ fileBuffer = NoBuffer
  /\ pdfDoc = <<>>
  /\ modified = FALSE
  /\ calls = <<>>
  /\ res = NoResponse
  /\ fault = "none"
  /\ ippReply = NoReply
  /\ abandonedAt = "no"
  /\ expr = <<>>
  /\ n = 0
  /\ rpc = "returned"
  /\ result = Null
  /\ ClientIdle
  /\ SplitterIdle
  /\ LoopIdle

\* no unlinkSync: the staged upload stays where it is
UnlinkSkipped == staged' = staged

\* try { fs.unlinkSync(file.path); } catch(e) {}: the staged upload is gone;
\* without a file, file.path throws and the catch swallows it
Unlink == staged' = FALSE

\* a catch block that cleans up and lets the handler go on to the transport
CatchAndGoOn(step) ==
  /\ fault' = step
  /\ Unlink
  /\ res' = res
  /\ pc' = "execute"

\* the catch block of the handler, entered from the step `step`
Catch(step) ==
  /\ fault' = step
  /\ Unlink
  /\ res' = InternalErrorResponse
  /\ pc' = "done"

\* the handler up to its first await: validation, then readFileSync
PostPrint ==
  /\ pc = "received"
  /\ IF MissingInput(req)
     THEN /\ Unlink
          /\ res' = MissingInputResponse
          /\ pc' = "done"
          /\ UNCHANGED <<fileBuffer, fault>>
     ELSE \E throws \in BOOLEAN :
            IF throws
            THEN Catch("readFileSync") /\ UNCHANGED fileBuffer
            ELSE /\ fileBuffer' = UploadedBuffer(req.file)
                 /\ pc' = IF IsPdfFile(req.file) THEN "load" ELSE "execute"
                 /\ UNCHANGED <<staged, res, fault>>
  /\ UNCHANGED <<req, ippReply, abandonedAt, pdfDoc, modified, calls>>
  /\ UNCHANGED resolverVars
  /\ UNCHANGED clientVars
  /\ UNCHANGED splitterVars
  /\ UNCHANGED loopVars

\* let pdfDoc = await PDFDocument.load(fileBuffer); let modified = false
LoadPdf ==
  /\ pc = "load"
  /\ \E throws \in BOOLEAN :
       IF throws
       THEN Catch("load") /\ UNCHANGED <<pdfDoc, modified>>
       ELSE /\ pdfDoc' = LoadedDoc(req.file.pageCount)
            /\ modified' = FALSE
            /\ pc' = "pages"
            /\ UNCHANGED <<staged, res, fault>>
  /\ UNCHANGED <<req, ippReply, abandonedAt, fileBuffer, calls>>
  /\ UNCHANGED resolverVars
  /\ UNCHANGED clientVars
  /\ UNCHANGED splitterVars
  /\ UNCHANGED loopVars

\* if (indices) without the test of the length: an empty selection is copied
\* too and leaves a document of no pages
FilterPagesEmptyToo ==
  /\ pc = "pages"
  /\ LET indices == getPageIndices(req.pages, Len(pdfDoc)) IN
       IF Truthy(req.pages) /\ ~indices.isNull
       THEN \E throws \in BOOLEAN :
              IF throws
              THEN Catch("copyPages") /\ UNCHANGED <<pdfDoc, modified>>
              ELSE /\ pdfDoc' = CopyPages(pdfDoc, indices.arr)
                   /\ modified' = TRUE
                   /\ pc' = "duplex"
                   /\ UNCHANGED <<staged, res, fault>>
       ELSE /\ pc' = "duplex"
            /\ UNCHANGED <<pdfDoc, modified, staged, res, fault>>
  /\ UNCHANGED <<req, ippReply, abandonedAt, fileBuffer, calls>>
  /\ UNCHANGED resolverVars
  /\ UNCHANGED clientVars
  /\ UNCHANGED splitterVars
  /\ UNCHANGED loopVars

\* if (pageRange) { ... }
FilterPages ==
  /\ pc = "pages"
  /\ LET indices == getPageIndices(req.pages, Len(pdfDoc)) IN
       IF Truthy(req.pages) /\ ~indices.isNull /\ Len(indices.arr) > 0
       THEN \E throws \in BOOLEAN :
              IF throws
              THEN Catch("copyPages") /\ UNCHANGED <<pdfDoc, modified>>
              ELSE /\ pdfDoc' = CopyPages(pdfDoc, indices.arr)
                   /\ modified' = TRUE
                   /\ pc' = "duplex"
                   /\ UNCHANGED <<staged, res, fault>>
       ELSE /\ pc' = "duplex"
            /\ UNCHANGED <<pdfDoc, modified, staged, res, fault>>
  /\ UNCHANGED <<req, ippReply, abandonedAt, fileBuffer, calls>>
  /\ UNCHANGED resolverVars
  /\ UNCHANGED clientVars
  /\ UNCHANGED splitterVars
  /\ UNCHANGED loopVars

\* if (duplexType === 'odd' || duplexType === 'even') { ... }
SplitDuplex ==
  /\ pc = "duplex"
  /\ IF req.duplex = "odd" \/ req.duplex = "even"
     THEN \E throws \in BOOLEAN :
            IF throws
            THEN Catch("copyPages") /\ UNCHANGED <<pdfDoc, modified>>
            ELSE /\ pdfDoc' = ParityPages(pdfDoc, req.duplex)
                 /\ modified' = TRUE
                 /\ pc' = "save"
                 /\ UNCHANGED <<staged, res, fault>>
     ELSE /\ pc' = "save"
          /\ UNCHANGED <<pdfDoc, modified, staged, res, fault>>
  /\ UNCHANGED <<req, ippReply, abandonedAt, fileBuffer, calls>>
  /\ UNCHANGED resolverVars
  /\ UNCHANGED clientVars
  /\ UNCHANGED splitterVars
  /\ UNCHANGED loopVars

\* the document saved anew whether or not it was modified
SavePdfAlways ==
  /\ pc = "save"
  /\ \E throws \in BOOLEAN :
       IF throws
       THEN Catch("save") /\ UNCHANGED fileBuffer
       ELSE /\ fileBuffer' = SavedBuffer(pdfDoc)
            /\ pc' = "execute"
            /\ UNCHANGED <<staged, res, fault>>
  /\ UNCHANGED <<req, ippReply, abandonedAt, pdfDoc, modified, calls>>
  /\ UNCHANGED resolverVars
  /\ UNCHANGED clientVars
  /\ UNCHANGED splitterVars
  /\ UNCHANGED loopVars

\* if (modified) { fileBuffer = Buffer.from(await pdfDoc.save()) }
SavePdf ==
  /\ pc = "save"
  /\ IF modified
     THEN \E throws \in BOOLEAN :
            IF throws
            THEN Catch("save") /\ UNCHANGED fileBuffer
            ELSE /\ fileBuffer' = SavedBuffer(pdfDoc)
                 /\ pc' = "execute"
                 /\ UNCHANGED <<staged, res, fault>>
     ELSE /\ pc' = "execute"
          /\ UNCHANGED <<fileBuffer, staged, res, fault>>
  /\ UNCHANGED <<req, ippReply, abandonedAt, pdfDoc, modified, calls>>
  /\ UNCHANGED resolverVars
  /\ UNCHANGED clientVars
  /\ UNCHANGED splitterVars
  /\ UNCHANGED loopVars

\* the data object, its job attributes and printer.execute("Print-Job", ...)
ExecutePrintJob ==
  /\ pc = "execute"
  /\ calls' = Append(calls, PrintJobData(req, fileBuffer))
  /\ pc' = "executing"
  /\ UNCHANGED <<req, ippReply, abandonedAt, staged, fileBuffer, pdfDoc, modified, res, fault>>
  /\ UNCHANGED resolverVars
  /\ UNCHANGED clientVars
  /\ UNCHANGED splitterVars
  /\ UNCHANGED loopVars

\* the callback of printer.execute on the reply `reply`; reading the job-id
\* of a response without a job-attributes-tag group throws out of the
\* callback, after the unlink and before any response
ExecuteCallback(reply) ==
  /\ pc = "executing"
  /\ ippReply' = reply
  /\ Unlink
  /\ IF CallbackThrows(reply)
     THEN res' = res /\ pc' = "threw"
     ELSE res' = CallbackResponse(reply) /\ pc' = "done"
  /\ UNCHANGED <<req, abandonedAt, fileBuffer, pdfDoc, modified, calls, fault>>
  /\ UNCHANGED resolverVars
  /\ UNCHANGED clientVars
  /\ UNCHANGED splitterVars
  /\ UNCHANGED loopVars

Next ==
  \/ PostPrint
  \/ LoadPdf
  \/ FilterPages
  \/ SplitDuplex
  \/ SavePdf
  \/ ExecutePrintJob
  \/ \E reply \in Replies : ExecuteCallback(reply)

Spec == Init /\ [][Next]_vars

\* The event loop runs every step of the handler that is ready.  The
\* callback of printer.execute runs when the printer answers or the
\* connection fails: the call is given no timeout, so nothing makes it run.
HandlerFairness ==
  /\ WF_vars(PostPrint)
  /\ WF_vars(LoadPdf)
  /\ WF_vars(FilterPages)
  /\ WF_vars(SplitDuplex)
  /\ WF_vars(SavePdf)
  /\ WF_vars(ExecutePrintJob)

SpecLive == Init /\ [][Next]_vars /\ HandlerFairness

\* The caller gives up on a request that has not been answered (the
\* connection closes).  The handler registers no listener for it: nothing
\* of its state changes.
Abandon ==
  /\ abandonedAt = "no"
  /\ pc \notin {"done", "threw"}
  /\ abandonedAt' = pc
  /\ UNCHANGED <<req, pc, staged, fileBuffer, pdfDoc, modified, calls, res, fault, ippReply>>
  /\ UNCHANGED resolverVars
  /\ UNCHANGED clientVars
  /\ UNCHANGED splitterVars
  /\ UNCHANGED loopVars

NextAbandon == Next \/ Abandon

SpecAbandon == Init /\ [][NextAbandon]_vars

(***************************************************************************)
(* Several requests at once.  Node runs one handler at a time, from one    *)
(* await to the next; the local variables of the handlers that wait are    *)
(* kept with them.  The variables req ... ippReply are those of the        *)
(* handler that runs; multer gives every upload a file name of its own.    *)
(***************************************************************************)
Jobs == 1..MaxJobs

\* the requests that arrive together: a PDF or another file, for the odd or
\* the even pages
ConcurrentRequests ==
  [file : {[present |-> TRUE, mimetype |-> PdfMime, pageCount |-> MaxPages],
           [present |-> TRUE, mimetype |-> "text/plain", pageCount |-> 0]},
   printerUrl : {PrinterAddress},
   duplex : {"odd", "even"},
   pages : {undefined},
   grayscale : {"undefined"}]

\* the local variables of the handler that runs
Activation ==
  [req |-> req, pc |-> pc, staged |-> staged, fileBuffer |-> fileBuffer,
   pdfDoc |-> pdfDoc, modified |-> modified, calls |-> calls, res |-> res,
   fault |-> fault, ippReply |-> ippReply]

\* the handler of the request r before its first step
Arrived(r) ==
  [req |-> r, pc |-> "received", staged |-> r.file.present, fileBuffer |-> NoBuffer,
   pdfDoc |-> <<>>, modified |-> FALSE, calls |-> <<>>, res |-> NoResponse,
   fault |-> "none", ippReply |-> NoReply]

\* the place of the handler that runs among the waiting ones
OnStack == [pc |-> "running"]

\* the state of the handler of the request p
JobState(p) == IF p = running THEN Activation ELSE parked[p]

\* an exception thrown out of the callback of printer.execute is caught
\* nowhere (no try around it, no uncaughtException listener): Node ends the
\* process, and with it every handler
ProcessExited == \E p \in Jobs : JobState(p).pc = "threw"

InitConcurrent ==
  /\ running = 1
  /\ req \in ConcurrentRequests
  /\ pc = "received"
  /\ staged = req.file.present
  /\ fileBuffer = NoBuffer
  /\ pdfDoc = <<>>
  /\ modified = FALSE
  /\ calls = <<>>
  /\ res = NoResponse
  /\ fault = "none"
  /\ ippReply = NoReply
  /\ abandonedAt = "no"
  /\ parked \in {[p \in Jobs |-> IF p = 1 THEN OnStack ELSE Arrived(rs[p])] :
                    rs \in [Jobs -> ConcurrentRequests]}
  /\ expr = <<>>
  /\ n = 0
  /\ rpc = "returned"
  /\ result = Null
  /\ ClientIdle
  /\ SplitterIdle

\* the event loop goes on with the handler of the request p, which waits
\* with work to do; the handler that ran waits at its await
Resume(p) ==
  /\ ~ProcessExited
  /\ p # running
  /\ parked[p].pc \notin {"done", "threw", "running"}
  /\ parked' = [parked EXCEPT ![running] = Activation, ![p] = OnStack]
  /\ running' = p
  /\ req' = parked[p].req
  /\ pc' = parked[p].pc
  /\ staged' = parked[p].staged
  /\ fileBuffer' = parked[p].fileBuffer
  /\ pdfDoc' = parked[p].pdfDoc
  /\ modified' = parked[p].modified
  /\ calls' = parked[p].calls
  /\ res' = parked[p].res
  /\ fault' = parked[p].fault
  /\ ippReply' = parked[p].ippReply
  /\ UNCHANGED abandonedAt
  /\ UNCHANGED resolverVars
  /\ UNCHANGED clientVars
  /\ UNCHANGED splitterVars

NextConcurrent ==
  \/ \E p \in Jobs : Resume(p)
  \/ ~ProcessExited /\ PostPrint
  \/ ~ProcessExited /\ LoadPdf
  \/ ~ProcessExited /\ FilterPages
  \/ ~ProcessExited /\ SplitDuplex
  \/ ~ProcessExited /\ SavePdf
  \/ ~ProcessExited /\ ExecutePrintJob
  \/ ~ProcessExited /\ \E reply \in Replies : ExecuteCallback(reply)

SpecConcurrent == InitConcurrent /\ [][NextConcurrent]_vars

(***************************************************************************)
(* The web app (printle-web-app/src/App.tsx) and the server together.      *)
(* The user selects a file, sets the options and prints; handlePrint       *)
(* sends the request and goes on, with the state of the render it was      *)
(* called in, when the fetch settles.  The settings are the defaults, the  *)
(* settings tab and the job history, which only display, are left out.     *)
(* The server is the handler above, one request at a time.                 *)
(***************************************************************************)
\* settings.serverUrl and settings.printerAddress of the default settings
ServerUrl == "http://localhost:3001"

\* the files the user has at hand: a PDF and a file that is no PDF
ClientFiles ==
  {[present |-> TRUE, mimetype |-> PdfMime, pageCount |-> MaxPages],
   [present |-> TRUE, mimetype |-> "text/plain", pageCount |-> 0]}

\* what the user types into the page range field
ClientRanges == {<<>>, <<"2">>}

\* the modal of the flip prompt lies over the whole page
PageReachable == ~showFlipPrompt

\* the card of the selected file with the options and the Print Now button
CardShown == PageReachable /\ ~isUploading /\ ~uploadSuccess /\ file # NoFile

UserCanAct == events < MaxUserEvents

\* resetPrintOptions
ResetPrintOptions ==
  /\ uploadSuccess' = FALSE
  /\ errorMessage' = NoMessage
  /\ duplexMode' = "none"
  /\ grayscale' = FALSE
  /\ pageRange' = <<>>

\* the fields handlePrint(stage) appends to the FormData
FormData(stage) ==
  [file |-> file,
   printerUrl |-> PrinterAddress,
   duplex |-> IF duplexMode = "auto" THEN "auto"
              ELSE IF duplexMode = "manual"
                   THEN (IF stage # "single" THEN stage ELSE "odd")
                   ELSE "undefined",
   pages |-> IF Trim(pageRange) # <<>> THEN pageRange ELSE undefined,
   grayscale |-> IF grayscale THEN "true" ELSE "undefined"]

\* handlePrint(stage) up to its await: the early returns, the request and
\* the fetch; the call keeps stage and the duplexMode of its render
HandlePrint(stage) ==
  IF file = NoFile
  THEN /\ errorMessage' = <<"Please select a file to print.">>
       /\ UNCHANGED <<file, isUploading, uploadSuccess, uploadStage, showFlipPrompt,
                      duplexMode, grayscale, pageRange, inflight, resetTimers, issued>>
  ELSE /\ errorMessage' = NoMessage
       /\ isUploading' = TRUE
       /\ uploadStage' = IF stage \in {"odd", "even"} THEN stage
                         ELSE IF duplexMode = "manual" THEN "odd" ELSE uploadStage
       /\ inflight' = inflight \cup
            {[id |-> issued + 1, stage |-> stage, duplexMode |-> duplexMode,
              form |-> FormData(stage), after |-> promptBy]}
       /\ issued' = issued + 1
       /\ UNCHANGED <<file, uploadSuccess, showFlipPrompt, duplexMode, grayscale,
                      pageRange, resetTimers>>

\* handleDrop and handleChange with the file f
SelectFile(f) ==
  /\ UserCanAct
  /\ PageReachable
  /\ file' = f
  /\ ResetPrintOptions
  /\ events' = events + 1
  /\ UNCHANGED <<isUploading, uploadStage, showFlipPrompt, inflight, resetTimers,
                 serving, issued, triggers, promptBy>>
  /\ UNCHANGED handlerVars
  /\ UNCHANGED resolverVars
  /\ UNCHANGED splitterVars
  /\ UNCHANGED loopVars

\* the X button of the file card
RemoveFile ==
  /\ UserCanAct
  /\ CardShown
  /\ file' = NoFile
  /\ ResetPrintOptions
  /\ events' = events + 1
  /\ UNCHANGED <<isUploading, uploadStage, showFlipPrompt, inflight, resetTimers,
                 serving, issued, triggers, promptBy>>
  /\ UNCHANGED handlerVars
  /\ UNCHANGED resolverVars
  /\ UNCHANGED splitterVars
  /\ UNCHANGED loopVars

\* cycleDuplexMode
CycleDuplexMode ==
  /\ UserCanAct
  /\ CardShown
  /\ duplexMode' = IF duplexMode = "none" THEN "manual"
                   ELSE IF duplexMode = "manual" THEN "auto" ELSE "none"
  /\ events' = events + 1
  /\ UNCHANGED <<file, isUploading, uploadSuccess, uploadStage, showFlipPrompt,
                 errorMessage, grayscale, pageRange, inflight, resetTimers,
                 serving, issued, triggers, promptBy>>
  /\ UNCHANGED handlerVars
  /\ UNCHANGED resolverVars
  /\ UNCHANGED splitterVars
  /\ UNCHANGED loopVars

\* setGrayscale(!grayscale)
ToggleGrayscale ==
  /\ UserCanAct
  /\ CardShown
  /\ grayscale' = ~grayscale
  /\ events' = events + 1
  /\ UNCHANGED <<file, isUploading, uploadSuccess, uploadStage, showFlipPrompt,
                 errorMessage, duplexMode, pageRange, inflight, resetTimers,
                 serving, issued, triggers, promptBy>>
  /\ UNCHANGED handlerVars
  /\ UNCHANGED resolverVars
  /\ UNCHANGED splitterVars
  /\ UNCHANGED loopVars

\* setPageRange(e.target.value)
SetPageRange(v) ==
  /\ UserCanAct
  /\ CardShown
  /\ v # pageRange
  /\ pageRange' = v
  /\ events' = events + 1
  /\ UNCHANGED <<file, isUploading, uploadSuccess, uploadStage, showFlipPrompt,
                 errorMessage, duplexMode, grayscale, inflight, resetTimers,
                 serving, issued, triggers, promptBy>>
  /\ UNCHANGED handlerVars
  /\ UNCHANGED resolverVars
  /\ UNCHANGED splitterVars
  /\ UNCHANGED loopVars

\* the X button of the error banner
DismissError ==
  /\ UserCanAct
  /\ PageReachable
  /\ errorMessage # NoMessage
  /\ errorMessage' = NoMessage
  /\ events' = events + 1
  /\ UNCHANGED <<file, isUploading, uploadSuccess, uploadStage, showFlipPrompt,
                 duplexMode, grayscale, pageRange, inflight, resetTimers,
                 serving, issued, triggers, promptBy>>
  /\ UNCHANGED handlerVars
  /\ UNCHANGED resolverVars
  /\ UNCHANGED splitterVars
  /\ UNCHANGED loopVars

\* the Print Now button: startPrintProcess
PrintNow ==
  /\ UserCanAct
  /\ CardShown
  /\ HandlePrint(IF duplexMode = "manual" THEN "odd" ELSE "single")
  /\ triggers' = triggers + 1
  /\ events' = events + 1
  /\ UNCHANGED <<serving, promptBy>>
  /\ UNCHANGED handlerVars
  /\ UNCHANGED resolverVars
  /\ UNCHANGED splitterVars
  /\ UNCHANGED loopVars

\* the Continue button of the flip prompt: handlePrint('even')
Continue ==
  /\ UserCanAct
  /\ showFlipPrompt
  /\ HandlePrint("even")
  /\ triggers' = triggers + 1
  /\ events' = events + 1
  /\ UNCHANGED <<serving, promptBy>>
  /\ UNCHANGED handlerVars
  /\ UNCHANGED resolverVars
  /\ UNCHANGED splitterVars
  /\ UNCHANGED loopVars

\* every answer taken for a good one
AnyResponseOk(response) == TRUE

\* response.ok
ResponseOk(response) == response.status >= 200 /\ response.status <= 299

\* the catch block of handlePrint that sends the request of q once more
PrintFailedAndRetried(q, detail) ==
  /\ isUploading' = FALSE
  /\ uploadStage' = "null"
  /\ errorMessage' = <<"Print Failed. Details: ">> \o detail
                       \o <<". Check Server URL: ", ServerUrl>>
  /\ inflight' = (inflight \ {q}) \cup {[q EXCEPT !.id = issued + 1]}
  /\ issued' = issued + 1
  /\ UNCHANGED <<file, uploadSuccess, showFlipPrompt, duplexMode, grayscale,
                 pageRange, resetTimers, promptBy>>

\* the catch block of handlePrint for the call q: the error is shown, nothing
\* is sent
PrintFailed(q, detail) ==
  /\ isUploading' = FALSE
  /\ uploadStage' = "null"
  /\ errorMessage' = <<"Print Failed. Details: ">> \o detail
                       \o <<". Check Server URL: ", ServerUrl>>
  /\ inflight' = inflight \ {q}
  /\ issued' = issued
  /\ UNCHANGED <<file, uploadSuccess, showFlipPrompt, duplexMode, grayscale,
                 pageRange, resetTimers, promptBy>>

\* handlePrint of the call q after its await, on the response of the server
\* (reply is what the printer had answered)
FetchResolved(q, response, reply) ==
  IF ~ResponseOk(response)
  THEN PrintFailed(q, <<"Server Response Error: ", response.error>>)
  ELSE /\ isUploading' = FALSE
       /\ uploadStage' = "null"
       /\ inflight' = inflight \ {q}
       /\ issued' = issued
       /\ IF q.duplexMode = "manual" /\ q.stage \in {"single", "odd"}
          THEN /\ showFlipPrompt' = TRUE
               /\ promptBy' = [raised |-> TRUE, form |-> q.form,
                               response |-> response, reply |-> reply]
               /\ UNCHANGED <<uploadSuccess, resetTimers>>
          ELSE /\ showFlipPrompt' =
                    IF q.duplexMode = "manual" /\ q.stage = "even"
                    THEN FALSE ELSE showFlipPrompt
               /\ uploadSuccess' = TRUE
               /\ resetTimers' = resetTimers + 1
               /\ promptBy' = promptBy
       /\ UNCHANGED <<file, errorMessage, duplexMode, grayscale, pageRange>>

\* the handler has nothing at hand
HandlerReset ==
  /\ req' = [file |-> NoFile, printerUrl |-> "", duplex |-> "undefined",
             pages |-> undefined, grayscale |-> "undefined"]
  /\ pc' = "done"
  /\ staged' = FALSE
  /\ fileBuffer' = NoBuffer
  /\ pdfDoc' = <<>>
  /\ modified' = FALSE
  /\ calls' = <<>>
  /\ res' = NoResponse
  /\ fault' = "none"
  /\ ippReply' = NoReply
  /\ abandonedAt' = "no"

\* the request of the call q arrives: multer stages the upload and the
\* handler starts
ServerAccept(q) ==
  /\ serving = 0
  /\ q \in inflight
  /\ serving' = q.id
  /\ req' = q.form
  /\ pc' = "received"
  /\ staged' = TRUE
  /\ UNCHANGED <<fileBuffer, pdfDoc, modified, calls, res, fault, ippReply, abandonedAt>>
  /\ UNCHANGED appVars
  /\ UNCHANGED <<issued, triggers, events, promptBy>>
  /\ UNCHANGED resolverVars
  /\ UNCHANGED splitterVars
  /\ UNCHANGED loopVars

\* the response of the handler reaches the call that awaits it
Deliver ==
  /\ serving # 0
  /\ pc = "done"
  /\ \E q \in inflight :
       /\ q.id = serving
       /\ FetchResolved(q, res, ippReply)
  /\ serving' = 0
  /\ HandlerReset
  /\ UNCHANGED <<triggers, events>>
  /\ UNCHANGED resolverVars
  /\ UNCHANGED splitterVars
  /\ UNCHANGED loopVars

\* the fetch of the call q rejects: the request did not reach the server, or
\* the callback of the handler threw and no response ever comes
FetchRejected(q) ==
  /\ q \in inflight
  /\ \/ q.id # serving /\ UNCHANGED handlerVars /\ serving' = serving
     \/ q.id = serving /\ pc = "threw" /\ HandlerReset /\ serving' = 0
  /\ PrintFailed(q, <<"Failed to fetch">>)
  /\ UNCHANGED <<triggers, events>>
  /\ UNCHANGED resolverVars
  /\ UNCHANGED splitterVars
  /\ UNCHANGED loopVars

\* the callback of setTimeout(..., 3000) after a print that succeeded
ResetTimerFires ==
  /\ resetTimers > 0
  /\ resetTimers' = resetTimers - 1
  /\ file' = NoFile
  /\ ResetPrintOptions
  /\ UNCHANGED <<isUploading, uploadStage, showFlipPrompt, inflight,
                 serving, issued, triggers, events, promptBy>>
  /\ UNCHANGED handlerVars
  /\ UNCHANGED resolverVars
  /\ UNCHANGED splitterVars
  /\ UNCHANGED loopVars

InitSystem ==
  /\ ClientIdle
  /\ SplitterIdle
  /\ LoopIdle
  /\ HandlerIdle
  /\ expr = <<>>
  /\ n = 0
  /\ rpc = "returned"
  /\ result = Null

NextSystem ==
  \/ \E f \in ClientFiles : SelectFile(f)
  \/ RemoveFile
  \/ CycleDuplexMode
  \/ ToggleGrayscale
  \/ \E v \in ClientRanges : SetPageRange(v)
  \/ DismissError
  \/ PrintNow
  \/ Continue
  \/ ResetTimerFires
  \/ \E q \in inflight : ServerAccept(q)
  \/ PostPrint
  \/ LoadPdf
  \/ FilterPages
  \/ SplitDuplex
  \/ SavePdf
  \/ ExecutePrintJob
  \/ \E reply \in Replies : ExecuteCallback(reply)
  \/ Deliver
  \/ \E q \in inflight : FetchRejected(q)

SpecSystem == InitSystem /\ [][NextSystem]_vars

(***************************************************************************)
(* Range expressions as the specification reads them: a comma-separated    *)
(* list of tokens, each a page number or a range start-end of two page     *)
(* numbers, white space around a token or a number ignored.                *)
(***************************************************************************)
IsInteger(s) == Trim(s) # <<>> /\ Range(Trim(s)) \subseteq Digits

IntegerOf(s) == Decimal(Trim(s), 0)

HyphenCount(s) == Cardinality({k \in 1..Len(s) : s[k] = "-"})

IsPageToken(t) == IsInteger(t)

IsRangeToken(t) ==
  /\ HyphenCount(t) = 1
  /\ IsInteger(Split(t, "-")[1])
  /\ IsInteger(Split(t, "-")[2])

ValidToken(t) == IsPageToken(t) \/ IsRangeToken(t)

\* the 1-based page numbers a valid token denotes
TokenPages(t) ==
  IF IsPageToken(t) THEN {IntegerOf(t)}
  ELSE IntegerOf(Split(t, "-")[1])..IntegerOf(Split(t, "-")[2])

Tokens(e) == Split(e, ",")

ValidExpr(e) == \A k \in 1..Len(Tokens(e)) : ValidToken(Tokens(e)[k])

\* the page numbers the valid tokens of e denote
DenotedPages(e) ==
  UNION {TokenPages(Tokens(e)[k]) : k \in {j \in 1..Len(Tokens(e)) : ValidToken(Tokens(e)[j])}}

\* the zero-based indices of the denoted pages that a document of
\* totalPages pages has, ascending
ExpectedIndices(e, totalPages) ==
  AscendingSeq({q - 1 : q \in {p \in DenotedPages(e) : 1 <= p /\ p <= totalPages}})

IsBlank(e) == Trim(e) = <<>>

StrictlyAscending(a) == \A j, k \in 1..Len(a) : j < k => a[j] < a[k]

(***************************************************************************)
(* Properties of the resolver, under SpecResolver.                         *)
(***************************************************************************)
\* C1: for every range expression made of integer tokens and integer ranges
\* and every page count n >= 0, getPageIndices returns a sequence, and every
\* sequence it returns is strictly ascending (hence without duplicates) and
\* holds only indices i with 0 <= i < n.
C1_AscendingInBounds ==
  rpc = "returned" =>
    /\ ValidExpr(expr) => ~result.isNull
    /\ ~result.isNull =>
         /\ StrictlyAscending(result.arr)
         /\ \A k \in 1..Len(result.arr) : 0 <= result.arr[k] /\ result.arr[k] < n

\* C1 witness: "3,1,3" on 3 pages, tokens out of order and one repeated
C1_Witness ==
  /\ rpc = "returned"
  /\ expr = <<"3", ",", "1", ",", "3">>
  /\ n = 3
  /\ result = Array(<<0, 2>>)

\* C2: for every comma-separated list of page numbers and ranges and every
\* page count, the result is exactly the ascending sequence of the indices
\* q-1 of the denoted pages q with 1 <= q <= n, whatever the order of the
\* tokens; pages out of the document contribute nothing.
C2_ExactlyDenotedPages ==
  rpc = "returned" /\ ValidExpr(expr) => result = Array(ExpectedIndices(expr, n))

\* C2 witness: "2-3,1" on 2 pages: the range is cut to page 2 and the later
\* token 1 comes first
C2_Witness ==
  /\ rpc = "returned"
  /\ expr = <<"2", "-", "3", ",", "1">>
  /\ n = 2
  /\ result = Array(<<0, 1>>)

\* C3: a token that is neither a valid integer nor a valid range of two
\* integers is dropped: the result holds the indices of the pages the valid
\* tokens denote and nothing else.
C3_InvalidTokensDropped ==
  rpc = "returned" /\ ~result.isNull => result.arr = ExpectedIndices(expr, n)

\* C4: the empty and the white-space-only expression both resolve to the
\* "no constraint" sentinel, and no other expression does, so the sentinel is
\* told apart from an expression that selects no page of the document.
C4_BlankIsSentinel ==
  rpc = "returned" => (IsBlank(expr) <=> result.isNull)

(***************************************************************************)
(* Properties of the handler, under Spec.                                  *)
(***************************************************************************)
IsPdf(r) == r.file.present /\ r.file.mimetype = PdfMime

\* the sequence s of zero-based indices the page range of the request
\* selects: every page when no range is given
SelectedIndices(r) ==
  IF Truthy(r.pages) THEN getPageIndices(r.pages, r.file.pageCount).arr
  ELSE [k \in 1..r.file.pageCount |-> k - 1]

\* the original page numbers at the positions k of s (from 0) that the manual
\* duplex directive keeps: k % 2 = 0 for odd, k % 2 = 1 for even
ParityOfSelection(r) ==
  LET s == SelectedIndices(r)
      keep == {k \in 0..(Len(s) - 1) :
                 IF r.duplex = "odd" THEN k % 2 = 0 ELSE k % 2 = 1}
      ks == AscendingSeq(keep)
  IN [j \in 1..Len(ks) |-> s[ks[j] + 1] + 1]

Responded == res # NoResponse

\* C5: a PDF submission whose non-empty range expression resolves to no page
\* of the document ends with an error outcome and never reaches the
\* transport; without a range expression the full document is submitted.
C5_EmptySelectionIsError ==
  /\ ( /\ ~MissingInput(req) /\ IsPdf(req)
       /\ Truthy(req.pages) /\ SelectedIndices(req) = <<>> )
       => /\ calls = <<>>
          /\ Responded => res.status >= 400
  /\ ( /\ ~MissingInput(req) /\ IsPdf(req)
       /\ ~Truthy(req.pages) /\ req.duplex \in {"undefined", "auto"}
       /\ calls # <<>> )
       => calls[1].data.pages = LoadedDoc(req.file.pageCount)

\* C6: for a PDF submission with a manual duplex directive, the submitted
\* document holds exactly the pages s[k], in order, with k % 2 = 0 for odd and
\* k % 2 = 1 for even, k the position in the sequence s the page range
\* selects (all pages when no range is given).
C6_ParityOfFilteredSequence ==
  ( /\ IsPdf(req)
    /\ req.duplex \in {"odd", "even"}
    /\ calls # <<>> )
    => calls[1].data.pages = ParityOfSelection(req)

\* C7: the job attributes sent to the transport hold print-color-mode =
\* monochrome exactly when the grayscale field of the request is 'true',
\* sides = two-sided-long-edge exactly when the duplex directive is auto, and
\* nothing else.
C7_JobAttributesExact ==
  \A k \in 1..Len(calls) :
    LET attrs == calls[k].jobAttributes IN
      /\ <<"print-color-mode", "monochrome">> \in attrs <=> req.grayscale = "true"
      /\ <<"sides", "two-sided-long-edge">> \in attrs <=> req.duplex = "auto"
      /\ attrs \subseteq {<<"print-color-mode", "monochrome">>,
                          <<"sides", "two-sided-long-edge">>}

\* C7 witness: grayscale with manual odd reaches the transport with the
\* color attribute alone
C7_Witness ==
  /\ calls # <<>>
  /\ req.grayscale = "true"
  /\ req.duplex = "odd"
  /\ calls[1].jobAttributes = {<<"print-color-mode", "monochrome">>}

\* C8: a submission without a file or without a printer address is answered
\* with status 400 (missing input), and printer.execute is never called for it.
C8_MissingInputRejected ==
  (~req.file.present \/ req.printerUrl = "") =>
    /\ calls = <<>>
    /\ pc # "received" => res = MissingInputResponse /\ pc = "done"

\* C8 witness: a file without a printer address has been answered with 400
C8_Witness ==
  /\ req.file.present
  /\ req.printerUrl = ""
  /\ pc = "done"
  /\ res.status = 400
  /\ calls = <<>>

\* C9: when reading or transforming the document throws, the submission ends
\* with a failure outcome and printer.execute is never called for it.
C9_TransformFailureStops ==
  fault # "none" =>
    /\ calls = <<>>
    /\ pc = "done"
    /\ res.status = 500

\* C9 witness: saving the filtered PDF threw and the request was answered
C9_Witness ==
  /\ fault = "save"
  /\ modified
  /\ pc = "done"
  /\ res = InternalErrorResponse
  /\ calls = <<>>

\* C10: no outcome is returned to the caller while the staged upload still
\* exists: on every exit path the file is deleted before the response.
C10_StagedFileReleased ==
  Responded => ~staged

\* C10 witness: an accepted job whose upload had been staged and is deleted
C10_Witness ==
  /\ req.file.present
  /\ calls # <<>>
  /\ res.status = 200
  /\ ~staged

(***************************************************************************)
(* Properties of the callback of printer.execute, under Spec.              *)
(***************************************************************************)
\* the successful status codes of IPP (RFC 8011, 0x0000 to 0x0002)
IppSuccessful ==
  {"successful-ok",
   "successful-ok-ignored-or-substituted-attributes",
   "successful-ok-conflicting-attributes"}

RepliedStatus == ippReply.err = "null"

\* C11: whenever the transport reports a successful protocol status (with the
\* job the device created), the outcome is Accepted and carries the job
\* identifier of the device.
C11_SuccessIsAccepted ==
  (RepliedStatus /\ ippReply.statusCode \in IppSuccessful /\ ippReply.hasJobTag)
    => res = [status |-> 200, success |-> TRUE, jobId |-> ippReply.jobId]

\* C12: whenever the transport returns a status that is not successful, the
\* outcome is DeviceRejected, carries exactly the status the device reported
\* and holds no job identifier.
C12_RejectionCarriesStatus ==
  (RepliedStatus /\ ippReply.statusCode \notin IppSuccessful)
    => /\ res = [status |-> 500, error |-> "Printer reported error",
                 ippStatus |-> ippReply.statusCode]
       /\ "jobId" \notin DOMAIN res

\* C12 witness: the printer answered server-error-busy
C12_Witness ==
  /\ RepliedStatus
  /\ ippReply.statusCode = "server-error-busy"
  /\ pc = "done"
  /\ res.ippStatus = "server-error-busy"

(***************************************************************************)
(* Properties of the payload, under Spec.                                  *)
(***************************************************************************)
IsNonPdf(r) == r.file.present /\ r.file.mimetype # PdfMime

HasPageDirective(r) == Truthy(r.pages) \/ r.duplex \in {"odd", "even"}

\* C16: for content that is no PDF, whatever the page range and the duplex
\* directive, the document model is never used (no load, no page copy, no
\* save) and the payload handed to the transport is the uploaded bytes.
C16_NonPdfPassthrough ==
  IsNonPdf(req) =>
    /\ pc \notin {"load", "pages", "duplex", "save"}
    /\ pdfDoc = <<>>
    /\ ~modified
    /\ \A k \in 1..Len(calls) : calls[k].data.bytes = "uploaded"

\* C16 witness: a file that is no PDF, sent with a page range and the odd
\* directive, has reached the transport
C16_Witness ==
  /\ IsNonPdf(req)
  /\ req.pages = <<"1">>
  /\ req.duplex = "odd"
  /\ calls # <<>>
  /\ calls[1].data.bytes = "uploaded"

\* C17: when a page range or a manual duplex directive comes with content
\* that is no PDF, the outcome reports that the directive had no effect: it
\* is not the outcome a submission without the directive gets.
C17_IgnoredDirectiveReported ==
  (IsNonPdf(req) /\ HasPageDirective(req) /\ res.status = 200)
    => res # [status |-> 200, success |-> TRUE, jobId |-> ippReply.jobId]

\* C18: for a PDF without page range (absent or empty) and with duplex none
\* or auto, the payload handed to the transport is the uploaded bytes, not a
\* document saved anew.
C18_UnfilteredPdfPassthrough ==
  (IsPdf(req) /\ ~Truthy(req.pages) /\ req.duplex \in {"undefined", "auto"})
    => /\ ~modified
       /\ \A k \in 1..Len(calls) :
            calls[k].data = [bytes |-> "uploaded",
                             pages |-> [j \in 1..req.file.pageCount |-> j]]

\* C18 witness: a PDF with the empty range and duplex auto at the transport
C18_Witness ==
  /\ IsPdf(req)
  /\ req.pages = <<>>
  /\ req.duplex = "auto"
  /\ calls # <<>>
  /\ calls[1].data.bytes = "uploaded"

(***************************************************************************)
(* The web app and the server together (SpecSystem).                       *)
(***************************************************************************)
\* C13: a request of the handler calls the transport at most once, and the
\* client sends a request only on a click of Print Now or Continue: after a
\* rejected or failed submission nothing is sent again by itself.
C13_NoAutomaticRetry ==
  /\ Len(calls) <= 1
  /\ issued <= triggers
  /\ \A q \in inflight : q.id <= triggers

\* C13 witness: the printer rejected the one job the user asked for, the error
\* is shown and no request is under way
C13_Witness ==
  /\ triggers = 1
  /\ issued = 1
  /\ inflight = {}
  /\ serving = 0
  /\ Len(errorMessage) = 5
  /\ errorMessage[3] = "Printer reported error"

\* C14: the flip prompt is shown only once a request with duplex odd was
\* answered with success for a job the printer accepted.
C14_FlipPromptOnlyAfterAcceptedOdd ==
  showFlipPrompt =>
    /\ promptBy.raised
    /\ promptBy.form.duplex = "odd"
    /\ promptBy.response.status = 200
    /\ promptBy.reply.err = "null"
    /\ promptBy.reply.statusCode \in IppSuccessful

\* C14 witness: the flip prompt is up after the odd pages were accepted
C14_Witness ==
  /\ showFlipPrompt
  /\ promptBy.raised
  /\ promptBy.form.duplex = "odd"
  /\ promptBy.response.status = 200
  /\ ~isUploading

\* C15: the request of the even phase carries the file of the odd phase that
\* raised the flip prompt, with duplex even.
C15_EvenPhaseSameContent ==
  \A q \in inflight :
    q.stage = "even" =>
      /\ q.after.raised
      /\ q.form.file = q.after.form.file
      /\ q.form.duplex = "even"

(***************************************************************************)
(* Progress and cancellation.                                              *)
(***************************************************************************)
\* C19 (under SpecLive): every submission is eventually answered with its
\* staged file released, also when the printer never answers.
C19_EventuallyAnswered == <>(Responded /\ ~staged)

\* C20 (under SpecAbandon): a submission the caller abandons before the call
\* of the transport never reaches the transport.
C20_AbandonedNeverSubmitted ==
  abandonedAt \in {"received", "load", "pages", "duplex", "save", "execute"}
    => calls = <<>>

(***************************************************************************)
(* Empty selections, the classification of replies, empty payloads.        *)
(***************************************************************************)
\* the page-range step is over, without a throw, for a PDF whose range
\* expression is not empty and selects no page of it
EmptySelectionFiltered ==
  /\ IsPdf(req)
  /\ req.printerUrl # ""
  /\ Truthy(req.pages)
  /\ SelectedIndices(req) = <<>>
  /\ pc = "duplex"

\* C24 as stated: a range expression that selects no page of the PDF leaves,
\* without an error, a document of zero pages for the next step.
C24_EmptySelectionLeavesNoPages ==
  EmptySelectionFiltered => (res = NoResponse /\ pdfDoc = <<>>)

\* C24 amended: a range expression that selects no page of the PDF leaves,
\* without an error, the document unfiltered: every page of the upload goes
\* to the next step.
C24_EmptySelectionLeavesAllPages ==
  EmptySelectionFiltered =>
    /\ res = NoResponse
    /\ fault = "none"
    /\ ~modified
    /\ pdfDoc = [k \in 1..req.file.pageCount |-> k]

\* C24 witness: the range 3 on a PDF of two pages, past the page-range step
C24_Witness ==
  /\ EmptySelectionFiltered
  /\ req.pages = <<"3">>
  /\ req.duplex = "odd"
  /\ req.file.pageCount = 2
  /\ pdfDoc = <<1, 2>>

\* C25: every reply of the transport gets exactly one outcome: Accepted
\* exactly for a reply without error whose status is successful-ok or
\* successful-ok-ignored-or-substituted-attributes, TransportFailure exactly
\* for a reply with an error, DeviceRejected exactly for every other status.
C25_ExactlyOneOutcome ==
  ippReply # NoReply =>
    LET ok == /\ ippReply.err = "null"
              /\ ippReply.statusCode \in
                   {"successful-ok", "successful-ok-ignored-or-substituted-attributes"}
    IN /\ (res = [status |-> 200, success |-> TRUE, jobId |-> ippReply.jobId]) <=> ok
       /\ (res = [status |-> 500, error |-> "Printer Connection Failed",
                   details |-> ippReply.err]) <=> (ippReply.err # "null")
       /\ (res = [status |-> 500, error |-> "Printer reported error",
                   ippStatus |-> ippReply.statusCode])
            <=> (ippReply.err = "null" /\ ~ok)

DeliversFailure ==
  /\ serving # 0
  /\ serving' = 0
  /\ pc = "done"
  /\ ippReply # NoReply
  /\ res.status = 500

\* C22: the message shown for a rejected job holds the status the printer
\* reported, and the message shown for a failed transport holds the text of
\* the transport error.
C22_MessageCarriesDetail ==
  [][DeliversFailure =>
       \E k \in 1..Len(errorMessage') :
         errorMessage'[k] = (IF ippReply.err = "null" THEN ippReply.statusCode
                             ELSE ippReply.err)]_vars

\* C28: at most one request of the even phase is under way at a time.
C28_OneEvenPhaseInFlight ==
  Cardinality({q \in inflight : q.stage = "even"}) <= 1

\* C29: while the flip prompt is shown a file is selected and the duplex
\* mode is manual.
C29_PromptHasFileAndManualMode ==
  showFlipPrompt => (file # NoFile /\ duplexMode = "manual")

\* C30: the delayed reset after a print leaves alone a file, with its
\* options, that was selected after that print succeeded (uploadSuccess is
\* false again and a file is on the card).
C30_ResetSparesNewSelection ==
  [][(resetTimers' < resetTimers /\ file # NoFile /\ ~uploadSuccess) =>
       /\ file' = file
       /\ duplexMode' = duplexMode
       /\ grayscale' = grayscale
       /\ pageRange' = pageRange]_vars

(***************************************************************************)
(* Several requests at once (SpecConcurrent).                              *)
(***************************************************************************)
\* the outcome the request, the faults and the reply of one submission give
OwnOutcome(j) ==
  IF ~j.req.file.present \/ j.req.printerUrl = ""
  THEN [status |-> 400, error |-> "Missing file or printerUrl"]
  ELSE IF j.fault # "none" THEN [status |-> 500, error |-> "Internal Server Error"]
  ELSE IF j.ippReply.err # "null"
  THEN [status |-> 500, error |-> "Printer Connection Failed", details |-> j.ippReply.err]
  ELSE IF j.ippReply.statusCode \in
            {"successful-ok", "successful-ok-ignored-or-substituted-attributes"}
  THEN [status |-> 200, success |-> TRUE, jobId |-> j.ippReply.jobId]
  ELSE [status |-> 500, error |-> "Printer reported error",
        ippStatus |-> j.ippReply.statusCode]

\* C21: the outcome of a submission and the deletion of its staged file
\* follow from its own request and its own reply, and the failure of one
\* submission leaves no other submission without its outcome.
C21_SubmissionsIndependent ==
  \A p \in Jobs :
    /\ JobState(p).pc = "done" =>
         (JobState(p).res = OwnOutcome(JobState(p)) /\ ~JobState(p).staged)
    /\ ProcessExited => JobState(p).pc \in {"done", "threw"}

\* C26: the odd phase and the even phase of one document, with the same page
\* range, submit disjoint sets of pages that together are the selected
\* pages; for a file that is no PDF the two phases do not submit the same
\* content.
C26_PhasesCoverOnce ==
  \A p, q \in Jobs :
    ( /\ JobState(p).req.file = JobState(q).req.file
      /\ JobState(p).req.pages = JobState(q).req.pages
      /\ JobState(p).req.duplex = "odd"
      /\ JobState(q).req.duplex = "even"
      /\ JobState(p).calls # <<>>
      /\ JobState(q).calls # <<>> )
    => LET odds == JobState(p).calls[1].data
           evens == JobState(q).calls[1].data
       IN IF JobState(p).req.file.mimetype = PdfMime
          THEN /\ Range(odds.pages) \cap Range(evens.pages) = {}
               /\ Range(odds.pages) \cup Range(evens.pages)
                    = {i + 1 : i \in Range(SelectedIndices(JobState(p).req))}
          ELSE ~(odds.bytes = "uploaded" /\ evens.bytes = "uploaded")

(***************************************************************************)
(* The splitter applied to its own output (SpecSplitter).                  *)
(***************************************************************************)
\* the pages of d at the indices 0, step, 2 * step, ...
EveryNth(d, step) ==
  [k \in 1..((Len(d) + step - 1) \div step) |-> d[step * (k - 1) + 1]]

\* C23 as stated: the odd split of the odd split of a document is the odd
\* split of the document.
C23_OddSplitIdempotent ==
  (passes = 2 /\ parity = "odd") => doc = EveryNth(original, 2)

\* C23 amended: the odd split of the odd split of a document holds the pages
\* of the document at the indices 0, 4, 8, ...; it is the odd split of the
\* document exactly when the document has at most two pages.
C23_SecondOddSplitKeepsEveryFourth ==
  (passes = 2 /\ parity = "odd") =>
    /\ doc = EveryNth(original, 4)
    /\ (doc = EveryNth(original, 2)) <=> (Len(original) <= 2)

\* C23 witness: five pages split twice, the first and the fifth are left
C23_Witness ==
  /\ passes = 2
  /\ parity = "odd"
  /\ original = <<1, 2, 3, 4, 5>>
  /\ doc = <<1, 5>>

====
